---- MODULE Spec2Model ----
(***************************************************************************)
(* Model of the aoe2-telegram-bot upload-identifier cache and of the       *)
(* send_audio flow that uses it.                                           *)
(*                                                                         *)
(* The repository holds the cache code twice: in _files_id_db.py and in    *)
(* _files.py.  Each module has its own in-memory dict _files_id_cache;     *)
(* both persist to the same file, files_id_db.  _handlers.py imports       *)
(* get_file_id / set_file_id from _files; the tests import them from       *)
(* _files_id_db.                                                           *)
(***************************************************************************)
EXTENDS Integers, Sequences, FiniteSets, TLC

VARIABLES
    files_id_cache,  \* [module -> dict]: each module's _files_id_cache
    files_id_db,     \* the document stored at the path files_id_db
    loaded,          \* [module -> BOOLEAN]: load_cache() has returned in this process
    handlers,        \* [handler -> record]: the send_audio coroutines
    last,            \* the last cache call made, with its arguments and result
    rt               \* progress of a put / restart / load / get sequence

vars == <<files_id_cache, files_id_db, loaded, handlers, last, rt>>

----------------------------------------------------------------------------
(* Bounds *)

NumStems == 2
NumIds == 2
NumHandlers == 1
NumTaunts == 2
NumSounds == 1
NumConcurrent == 2

----------------------------------------------------------------------------
(* Values *)

None == "None"

StemPool == <<"Britons", "Celts", "Franks", "Goths">>
IdPool == <<"id1", "id2", "id3", "id4">>

Stems == {StemPool[i] : i \in 1..NumStems}
Ids == {IdPool[i] : i \in 1..NumIds}

Modules == {"_files_id_db", "_files"}

\* The module _handlers.py imports get_file_id and set_file_id from.
HandlersModule == "_files"

\* The module tests/test_handlers.py imports set_file_id and get_file_id from.
TestsModule == "_files_id_db"

\* The module taken when the cache is looked at as a component of its own.
CacheModule == "_files_id_db"

\* pathlib.Path values: directory, stem and suffix of the last component.
Path(dir, stem) == [dir |-> dir, stem |-> stem, suffix |-> ".mp3"]

\* The files of the audio folder, and a file of another directory that has
\* the base name of one of them.
Paths == {Path("audio", s) : s \in Stems} \cup {Path("other", StemPool[1])}

NoPath == [dir |-> "", stem |-> "", suffix |-> ""]

\* The files the bot's commands pick from (audio_folder.glob).
audio_folder == {p \in Paths : p.dir = "audio"}

\* A key that keeps the directory of the path
PathName_with_dir(p) == <<p.dir, p.stem, p.suffix>>

\* Path.name: the base name, without the directory.
PathName(p) == <<p.stem, p.suffix>>

\* Path.stem
PathStem(p) == p.stem

Names == {PathName(p) : p \in Paths}

NoName == <<>>

\* Python truthiness of an Optional[str] / Optional[Path] value.
Truthy(x) == x \notin {None, ""}

----------------------------------------------------------------------------
(* str: the characters of a string, one element each *)

DigitSeq == <<"0", "1", "2", "3", "4", "5", "6", "7", "8", "9">>

UpperSeq == <<"A", "B", "C", "D", "E", "F", "G", "H", "I", "J", "K", "L", "M",
              "N", "O", "P", "Q", "R", "S", "T", "U", "V", "W", "X", "Y", "Z">>

LowerSeq == <<"a", "b", "c", "d", "e", "f", "g", "h", "i", "j", "k", "l", "m",
              "n", "o", "p", "q", "r", "s", "t", "u", "v", "w", "x", "y", "z">>

Range(seq) == {seq[i] : i \in 1..Len(seq)}

\* The place of character c in seq
IndexOf(seq, c) == CHOOSE i \in 1..Len(seq) : seq[i] = c

\* str.lower()
str_lower(w) ==
    [i \in 1..Len(w) |->
        IF w[i] \in Range(UpperSeq) THEN LowerSeq[IndexOf(UpperSeq, w[i])] ELSE w[i]]

\* str.upper()
str_upper(w) ==
    [i \in 1..Len(w) |->
        IF w[i] \in Range(LowerSeq) THEN UpperSeq[IndexOf(LowerSeq, w[i])] ELSE w[i]]

RECURSIVE str_lstrip(_, _)
str_lstrip(w, c) ==
    IF w # <<>> /\ Head(w) = c THEN str_lstrip(Tail(w), c) ELSE w

RECURSIVE str_rstrip(_, _)
str_rstrip(w, c) ==
    IF w # <<>> /\ w[Len(w)] = c THEN str_rstrip(SubSeq(w, 1, Len(w) - 1), c) ELSE w

\* str.strip(c): the characters c taken off both ends
str_strip(w, c) == str_rstrip(str_lstrip(w, c), c)

\* zfill that pads nothing
str_zfill_none(w, width) == w

RECURSIVE str_zfill(_, _)
\* str.zfill(width): zeros on the left up to width, after a sign if there is one
str_zfill(w, width) ==
    IF Len(w) >= width THEN w
    ELSE IF w # <<>> /\ Head(w) \in {"+", "-"}
         THEN <<Head(w)>> \o str_zfill(Tail(w), width - 1)
         ELSE str_zfill(<<"0">> \o w, width)

\* str.isdigit()
str_isdigit(w) == w # <<>> /\ \A i \in 1..Len(w) : w[i] \in Range(DigitSeq)

RECURSIVE str_to_int(_)
\* int(w), w made of digits
str_to_int(w) ==
    IF w = <<>> THEN 0
    ELSE 10 * str_to_int(SubSeq(w, 1, Len(w) - 1)) + (IndexOf(DigitSeq, w[Len(w)]) - 1)

RECURSIVE int_to_str(_)
\* str(n), n >= 0
int_to_str(n) ==
    IF n < 10 THEN <<DigitSeq[n + 1]>>
    ELSE int_to_str(n \div 10) \o <<DigitSeq[(n % 10) + 1]>>

RECURSIVE first_word(_)
\* str.split()[0]: the characters up to the first blank, blanks in front
\* skipped; empty when split() gives no part
first_word(w) ==
    IF w = <<>> THEN <<>>
    ELSE IF Head(w) = " " THEN first_word(Tail(w))
    ELSE LET blanks == {i \in 1..Len(w) : w[i] = " "}
         IN  IF blanks = {} THEN w
             ELSE SubSeq(w, 1, (CHOOSE i \in blanks : \A j \in blanks : i <= j) - 1)

RECURSIVE Join(_)
\* The string made of the characters
Join(w) == IF w = <<>> THEN "" ELSE Head(w) \o Join(Tail(w))

----------------------------------------------------------------------------
(* The audio folder and audio_folder.glob *)

\* The spelling of the strings that file names and patterns are made of.
Words ==
    { <<"B", "r", "i", "t", "o", "n", "s">>, <<"C", "e", "l", "t", "s">>,
      <<"F", "r", "a", "n", "k", "s">>, <<"G", "o", "t", "h", "s">>,
      <<"0", "1", " ", "y", "e", "s">>,
      <<"1", "1", " ", "w", "o", "l", "o", "l", "o">>,
      <<"1", "1", " ", "n", "i", "c", "e", " ", "t", "o", "w", "n">>,
      <<"0", "0", " ", "n", "o">>,
      <<"t", "e", "s", "t", "1">>, <<"t", "e", "s", "t", "2">>,
      <<".", "m", "p", "3">>, <<".", "w", "a", "v">>, <<>> }

\* The strings spelled, each with its characters
Spelling == [str \in {Join(w) : w \in Words} |-> CHOOSE w \in Words : Join(w) = str]

\* The characters of a string
Chars(str) == Spelling[str]

TauntPool == <<"01 yes", "11 wololo", "11 nice town", "00 no">>
SoundPool == <<"test1", "test2">>

\* The taunt files of the audio folder, "NN title.mp3"
TauntFiles == {Path("audio", TauntPool[i]) : i \in 1..NumTaunts}

\* The sound files of the audio folder, "name.wav"
SoundFiles == {[Path("audio", SoundPool[i]) EXCEPT !.suffix = ".wav"] : i \in 1..NumSounds}

\* Every file of the audio folder: civilizations, taunts and sounds
AudioFiles == audio_folder \cup TauntFiles \cup SoundFiles

\* The characters of Path.name
NameChars(p) == Chars(p.stem) \o Chars(p.suffix)

\* Patterns are sequences of tokens: a character, "*", or a class of
\* characters.
civilizations_pattern == <<"[A-Z]", "[a-z]", "*", ".", "m", "p", "3">>
taunts_pattern == <<"[0-9]", "[0-9]", " ", "*", ".", "m", "p", "3">>
audio_pattern == <<"*", ".", "w", "a", "v">>

\* One pattern token, not "*", against one character
TokenMatches(tok, c) ==
    CASE tok = "[A-Z]" -> c \in Range(UpperSeq)
      [] tok = "[a-z]" -> c \in Range(LowerSeq)
      [] tok = "[0-9]" -> c \in Range(DigitSeq)
      [] tok = "?" -> TRUE
      [] OTHER -> c = tok

RECURSIVE GlobMatch(_, _)
\* fnmatch of a name against a pattern: "*" stands for any characters, none
\* included
GlobMatch(pat, w) ==
    IF pat = <<>> THEN w = <<>>
    ELSE IF Head(pat) = "*"
         THEN GlobMatch(Tail(pat), w) \/ (w # <<>> /\ GlobMatch(pat, Tail(w)))
         ELSE /\ w # <<>>
              /\ TokenMatches(Head(pat), Head(w))
              /\ GlobMatch(Tail(pat), Tail(w))

\* audio_folder.glob(pattern): the files found; their order in the list is
\* the directory's
glob(pat) == {p \in AudioFiles : GlobMatch(pat, NameChars(p))}

\* get_civilization_files()
get_civilization_files == glob(civilizations_pattern)

\* get_civilization_list()
get_civilization_list == {PathStem(civ) : civ \in get_civilization_files}

\* get_taunt_list()
get_taunt_list == {PathStem(t) : t \in glob(taunts_pattern)}

\* _get_random_file(pattern): the (file_path, file_id) pairs it can return
get_random_file(pat) ==
    LET files == glob(pat)
    IN  IF files = {} THEN {<<NoPath, None>>} ELSE {<<selected, None>> : selected \in files}

----------------------------------------------------------------------------
(* dict[str, str] *)

EmptyDict == [k \in {} |-> None]

Dicts == UNION {[S -> Ids] : S \in SUBSET Names}

\* dict.get(k): the value, or None
dict_get(d, k) == IF k \in DOMAIN d THEN d[k] ELSE None

\* d[k] = v
dict_set(d, k, v) == [x \in (DOMAIN d) \cup {k} |-> IF x = k THEN v ELSE d[x]]

\* the (key, value) pairs of a dict
PairSet(d) == {<<k, d[k]>> : k \in DOMAIN d}

RECURSIVE dict_items(_)
\* the items of a dict as a sequence, one per key
dict_items(d) ==
    IF DOMAIN d = {} THEN <<>>
    ELSE LET k == CHOOSE x \in DOMAIN d : TRUE
             rest == [x \in (DOMAIN d) \ {k} |-> d[x]]
         IN  <<<<k, d[k]>>>> \o dict_items(rest)

RECURSIVE dict_update(_, _)
\* dict.update(entries): entries applied in order, a later key overwriting an earlier
dict_update(d, entries) ==
    IF entries = <<>> THEN d
    ELSE dict_update(dict_set(d, Head(entries)[1], Head(entries)[2]), Tail(entries))

----------------------------------------------------------------------------
(* The persisted store: the text of the file files_id_db *)

\* kind "absent":    the file does not exist
\* kind "object":    a complete JSON object, its members in `entries`
\* kind "truncated": the file was opened for writing and at most a prefix of
\*                   the object was written (it may be empty); what the prefix
\*                   holds is left out, json.load rejects every one of them
\* kind "not_json":  text that is not JSON
\* kind "string":    a JSON string, such as "not valid json" in quotes
\* kind "scalar":    valid JSON that is no object: null, a number, true, false
Doc(kind, entries) == [kind |-> kind, entries |-> entries]

Absent == Doc("absent", <<>>)

\* json.dump(d, f, indent=2)
json_dump(d) == Doc("object", dict_items(d))

\* The pairs a reader finds in the store; a missing file holds none.
StorePairs(doc) ==
    IF doc.kind = "object" THEN PairSet(dict_update(EmptyDict, doc.entries)) ELSE {}

\* The stores a process can find when it starts: written by an earlier process,
\* or put or edited there by the user.
InitialStores ==
    {Absent, Doc("not_json", <<>>), Doc("string", <<>>), Doc("scalar", <<>>),
     Doc("truncated", <<>>)}
    \cup {json_dump(d) : d \in Dicts}
    \cup {d \in {Doc("object", <<<<n, i>>, <<n, j>>>>) : n \in Names, i \in Ids, j \in Ids} :
             d.entries[1] # d.entries[2]}

----------------------------------------------------------------------------
(* Records of calls *)

\* One cache call: the operation, the module whose function was called, the
\* caller ("api" for a direct caller such as a test, or the handler), the
\* arguments and what came back; `path` is the file_path argument, `name` the
\* key made of it.  `pre` tells what the call met: for a clear, what there
\* was to clear ("cached": entries in memory, "stored": a store file); for a
\* put or a get, how it follows the call before it (see Follows).
Call(op, mod, caller, name, id, result, copy) ==
    [op |-> op, mod |-> mod, caller |-> caller, name |-> name, id |-> id,
     result |-> result, copy |-> copy, path |-> NoPath, pre |-> {}]

NoCall == Call("main", "", "", NoName, None, None, EmptyDict)

\* How a get or a put of file_path on module mod follows the call made before
\* it: "new_id" when that call was a put that returned, for the same base
\* name, of another identifier; "other_dir" when it was a put for the same
\* base name in another directory.
Follows(op, mod, file_path, file_id) ==
    LET same == /\ last.op = "put" /\ last.mod = mod
                /\ last.path.stem = file_path.stem
                /\ last.path.suffix = file_path.suffix
    IN  (IF same /\ op = "put" /\ last.result = "ok" /\ last.id # file_id
         THEN {"new_id"} ELSE {})
        \cup (IF same /\ last.path.dir # file_path.dir THEN {"other_dir"} ELSE {})

NoRoundTrip == [stage |-> "none", mod |-> "", name |-> NoName, id |-> None, result |-> None]

\* Follows the sequence put(name, id); process start; load(); get(name) on one
\* module, any other call in between starting over.
RoundTrip(r, ev) ==
    CASE ev.op = "put" /\ ev.result = "ok" ->
            [stage |-> "put", mod |-> ev.mod, name |-> ev.name, id |-> ev.id, result |-> None]
      [] ev.op = "main" /\ r.stage = "put" ->
            [r EXCEPT !.stage = "started"]
      [] ev.op = "load" /\ r.stage = "started" /\ ev.mod = r.mod ->
            [r EXCEPT !.stage = "loaded"]
      [] ev.op = "get" /\ r.stage = "loaded" /\ ev.mod = r.mod /\ ev.name = r.name ->
            [r EXCEPT !.stage = "got", !.result = ev.result]
      [] OTHER -> NoRoundTrip

----------------------------------------------------------------------------
(* The cache functions, the same text in _files_id_db.py and in _files.py *)

\* What a fresh process holds: both modules' _files_id_cache = {}
FreshCaches == [m \in Modules |-> EmptyDict]

NotLoaded == [m \in Modules |-> FALSE]

\* json.load(f) followed by _files_id_cache.update(...), on an empty cache:
\* the exception that comes out of the try block, or "ok"
LoadOutcome(doc) ==
    CASE doc.kind = "object" -> "ok"
      [] doc.kind \in {"truncated", "not_json"} -> "JSONDecodeError"
      [] doc.kind = "string" -> "ValueError"
      [] doc.kind = "scalar" -> "TypeError"

\* except (json.JSONDecodeError, ValueError): pass
LoadCaught == {"JSONDecodeError", "ValueError"}

\* load_cache(): what the caller sees, "ok" or "raised"
LoadResult(cache, doc) ==
    IF cache # EmptyDict \/ doc.kind = "absent" THEN "ok"
    ELSE IF LoadOutcome(doc) \in LoadCaught \cup {"ok"} THEN "ok" ELSE "raised"

\* load_cache with its guard the wrong way round: it reads the store only
\* when the cache already holds entries
LoadedCache_inverted(cache, doc) ==
    IF cache = EmptyDict \/ doc.kind = "absent" THEN cache
    ELSE IF doc.kind = "object" THEN dict_update(cache, doc.entries)
    ELSE cache

\* load_cache without the test of _files_id_cache: it reads the store into a
\* cache that already holds entries
LoadedCache_unguarded(cache, doc) ==
    IF doc.kind = "object" THEN dict_update(cache, doc.entries) ELSE cache

\* load_cache(): the cache it leaves
LoadedCache(cache, doc) ==
    IF cache # EmptyDict \/ doc.kind = "absent" THEN cache
    ELSE IF doc.kind = "object" THEN dict_update(cache, doc.entries)
    ELSE cache

\* load_cache() of module mod
load_cache(mod, caller) ==
    LET res == LoadResult(files_id_cache[mod], files_id_db)
        ev == Call("load", mod, caller, NoName, None, res, EmptyDict)
    IN  /\ files_id_cache' =
              [files_id_cache EXCEPT ![mod] = LoadedCache(files_id_cache[mod], files_id_db)]
        /\ UNCHANGED files_id_db
        /\ loaded' = [loaded EXCEPT ![mod] = (loaded[mod] \/ res = "ok")]
        /\ last' = ev
        /\ rt' = RoundTrip(rt, ev)

\* get_file_id(file_path) of module mod: the value, on a given cache
get_file_id(cache, file_path) == dict_get(cache, PathName(file_path))

\* get_file_id reading the store into an empty cache before it looks the
\* name up
call_get_file_id_loading(mod, file_path, caller) ==
    LET cache == LoadedCache(files_id_cache[mod], files_id_db)
        ev == [Call("get", mod, caller, PathName(file_path), None,
                    get_file_id(cache, file_path), EmptyDict)
                  EXCEPT !.path = file_path,
                         !.pre = Follows("get", mod, file_path, None)]
    IN  /\ files_id_cache' = [files_id_cache EXCEPT ![mod] = cache]
        /\ UNCHANGED <<files_id_db, loaded>>
        /\ last' = ev
        /\ rt' = RoundTrip(rt, ev)

\* The call get_file_id(file_path) as a step of its own
call_get_file_id(mod, file_path, caller) ==
    LET ev == [Call("get", mod, caller, PathName(file_path), None,
                    get_file_id(files_id_cache[mod], file_path), EmptyDict)
                  EXCEPT !.path = file_path,
                         !.pre = Follows("get", mod, file_path, None)]
    IN  /\ UNCHANGED <<files_id_cache, files_id_db, loaded>>
        /\ last' = ev
        /\ rt' = RoundTrip(rt, ev)

\* How a set_file_id call can end: it returns ("ok"); mkdir or open raises
\* before the file is touched ("open_error"); open("w") has truncated the
\* file and a write raises ("write_error").  A process killed between the
\* open and the close leaves the file as a write that raises does; its
\* restart is main.
PutOutcomes == {"ok", "open_error", "write_error"}

\* The cache after _files_id_cache[file_path.name] = file_id
PutCache(cache, file_path, file_id) == dict_set(cache, PathName(file_path), file_id)

\* The file after set_file_id's open("w") / json.dump
PutStore(doc, new, outcome) ==
    CASE outcome = "ok" -> json_dump(new)
      [] outcome = "open_error" -> doc
      [] outcome = "write_error" -> Doc("truncated", <<>>)

\* set_file_id writing the entry it sets, not the whole cache
set_file_id_entry_only(mod, file_path, file_id, outcome, caller, r) ==
    LET new == PutCache(files_id_cache[mod], file_path, file_id)
        ev == [Call("put", mod, caller, PathName(file_path), file_id, outcome, EmptyDict)
                  EXCEPT !.path = file_path,
                         !.pre = Follows("put", mod, file_path, file_id)]
    IN  /\ files_id_cache' = [files_id_cache EXCEPT ![mod] = new]
        /\ files_id_db' =
              PutStore(files_id_db, dict_set(EmptyDict, PathName(file_path), file_id), outcome)
        /\ UNCHANGED loaded
        /\ last' = ev
        /\ rt' = RoundTrip(r, ev)

\* set_file_id adding the entry it sets to the document in the store, where
\* it should write the document anew
set_file_id_appending(mod, file_path, file_id, outcome, caller, r) ==
    LET new == PutCache(files_id_cache[mod], file_path, file_id)
        ev == [Call("put", mod, caller, PathName(file_path), file_id, outcome, EmptyDict)
                  EXCEPT !.path = file_path,
                         !.pre = Follows("put", mod, file_path, file_id)]
        old == IF files_id_db.kind = "object" THEN files_id_db.entries ELSE <<>>
    IN  /\ files_id_cache' = [files_id_cache EXCEPT ![mod] = new]
        /\ files_id_db' =
              IF outcome = "ok"
              THEN Doc("object", Append(old, <<PathName(file_path), file_id>>))
              ELSE PutStore(files_id_db, new, outcome)
        /\ UNCHANGED loaded
        /\ last' = ev
        /\ rt' = RoundTrip(r, ev)

\* set_file_id(file_path, file_id) of module mod, ending with `outcome`
set_file_id(mod, file_path, file_id, outcome, caller, r) ==
    LET new == PutCache(files_id_cache[mod], file_path, file_id)
        ev == [Call("put", mod, caller, PathName(file_path), file_id, outcome, EmptyDict)
                  EXCEPT !.path = file_path,
                         !.pre = Follows("put", mod, file_path, file_id)]
    IN  /\ files_id_cache' = [files_id_cache EXCEPT ![mod] = new]
        /\ files_id_db' = PutStore(files_id_db, new, outcome)
        /\ UNCHANGED loaded
        /\ last' = ev
        /\ rt' = RoundTrip(r, ev)

\* How a clear_file_id_db call can end: it returns, or unlink raises.
ClearOutcomes == {"ok", "unlink_error"}

\* clear_file_id_db emptying the store file where it should delete it
clear_file_id_db_emptying(mod, outcome, caller) ==
    LET ev == Call("clear", mod, caller, NoName, None, outcome, EmptyDict)
    IN  /\ outcome = "unlink_error" => files_id_db.kind # "absent"
        /\ files_id_cache' = [files_id_cache EXCEPT ![mod] = EmptyDict]
        /\ files_id_db' = IF outcome = "ok" THEN json_dump(EmptyDict) ELSE files_id_db
        /\ UNCHANGED loaded
        /\ last' = ev
        /\ rt' = RoundTrip(rt, ev)

\* clear_file_id_db() of module mod
clear_file_id_db(mod, outcome, caller) ==
    LET pre == (IF files_id_cache[mod] # EmptyDict THEN {"cached"} ELSE {})
                   \cup (IF files_id_db.kind # "absent" THEN {"stored"} ELSE {})
        ev == [Call("clear", mod, caller, NoName, None, outcome, EmptyDict) EXCEPT !.pre = pre]
    IN  /\ outcome = "unlink_error" => files_id_db.kind # "absent"
        /\ files_id_cache' = [files_id_cache EXCEPT ![mod] = EmptyDict]
        /\ files_id_db' = IF outcome = "ok" THEN Absent ELSE files_id_db
        /\ UNCHANGED loaded
        /\ last' = ev
        /\ rt' = RoundTrip(rt, ev)

\* The object a get_all_file_ids call hands to its caller: a new dict made
\* by dict.copy(), or the module's own dict
NewDict == "copy"
OwnDict == "_files_id_cache"

\* get_all_file_ids returning the module's dict itself
get_all_file_ids_live(mod, caller) ==
    LET ev == Call("getAll", mod, caller, NoName, None, OwnDict, files_id_cache[mod])
    IN  /\ UNCHANGED <<files_id_cache, files_id_db, loaded>>
        /\ last' = ev
        /\ rt' = RoundTrip(rt, ev)

\* get_all_file_ids() of module mod: return _files_id_cache.copy()
get_all_file_ids(mod, caller) ==
    LET ev == Call("getAll", mod, caller, NoName, None, NewDict, files_id_cache[mod])
    IN  /\ UNCHANGED <<files_id_cache, files_id_db, loaded>>
        /\ last' = ev
        /\ rt' = RoundTrip(rt, ev)

\* del d[k]
dict_del(d, k) == [x \in (DOMAIN d) \ {k} |-> d[x]]

RECURSIVE Changed(_, _)
\* What n statements of the caller, each d[k] = v or del d[k], can make of
\* the dict d it was handed
Changed(d, n) ==
    IF n = 0 THEN {d}
    ELSE UNION {{dict_set(c, k, v) : k \in Names, v \in Ids}
                   \cup {dict_del(c, k) : k \in DOMAIN c} : c \in Changed(d, n - 1)}

\* The caller of get_all_file_ids changes the dict it was handed into d, by
\* as many statements as it has keys to set or delete.  The change shows in
\* the module's dict when the two are one object.  The call record keeps the
\* value as it was returned and notes that the caller changed it.
change_returned(mod) ==
    /\ last.op = "getAll" /\ last.mod = mod
    /\ last' = [last EXCEPT !.pre = {"changed"}]
    /\ \E d \in Changed(last.copy, Cardinality(Names)) \ {last.copy} :
           files_id_cache' =
               IF last.result = OwnDict
               THEN [files_id_cache EXCEPT ![mod] = d] ELSE files_id_cache
    /\ UNCHANGED <<files_id_db, loaded, rt>>

----------------------------------------------------------------------------
(* send_audio, _handlers.py *)

HandlerPool == <<"h1", "h2", "h3">>

\* The send_audio coroutines that can be in progress at once.
Handlers == {HandlerPool[i] : i \in 1..NumHandlers}

\* The send_audio coroutines of updates the application handles
\* concurrently: each runs on the one event loop and gives way at its awaits.
ConcurrentHandlers == {HandlerPool[i] : i \in 1..NumConcurrent}

\* The audio= argument of bot.send_audio: a file_id string or a Path.
Payload(kind, id, path) == [kind |-> kind, id |-> id, path |-> path]

NoPayload == Payload("none", None, NoPath)

\* What one send_audio call has made the bot do so far.
NoOut == [messages |-> <<>>, chat_actions |-> 0, audios |-> <<>>]

NoAudioText == "Sorry, no audio files available."

\* A handler: where its coroutine stands, send_audio's arguments and locals,
\* what it has sent, the command handler that called send_audio with the
\* text of its update, and the exception it ended with.
Idle ==
    [pc |-> "idle", audio_file |-> NoPath, file_id |-> None,
     audio_to_send |-> NoPayload, title |-> None, message |-> None, out |-> NoOut,
     command |-> None, text |-> <<>>, error |-> None]

\* A str passed where send_audio expects a Path
Str(str) == [str |-> str]

\* The value has the attributes of a Path (name, stem)
IsPath(x) == "stem" \in DOMAIN x

\* The file_id arguments send_audio is called with.
FileIdArgs == Ids \cup {None, ""}

\* The audio_file arguments send_audio is called with.
AudioFileArgs == audio_folder \cup {NoPath}

\* send_audio without its test of the two arguments
FirstAwait_unchecked(audio_file, file_id) == "await_send_chat_action"

\* The first await of send_audio: bot.send_message when both arguments are
\* None, bot.send_chat_action otherwise.
FirstAwait(audio_file, file_id) ==
    IF audio_file = NoPath /\ file_id = None
    THEN "await_send_message"
    ELSE "await_send_chat_action"

\* send_audio(update, context, audio_file, file_id) is called: it runs to its
\* first await.
send_audio_call(h, audio_file, file_id) ==
    /\ handlers[h].pc \in {"idle", "done", "raised"}
    /\ handlers' = [handlers EXCEPT ![h] =
            [Idle EXCEPT !.pc = FirstAwait(audio_file, file_id),
                         !.audio_file = audio_file,
                         !.file_id = file_id]]
    /\ UNCHANGED <<files_id_cache, files_id_db, loaded, last, rt>>

\* bot.send_message returns: the text is out, send_audio returns.
send_audio_no_file(h) ==
    /\ handlers[h].pc = "await_send_message"
    /\ handlers' = [handlers EXCEPT ![h].pc = "done",
                                    ![h].out.messages = Append(@, NoAudioText)]
    /\ UNCHANGED <<files_id_cache, files_id_db, loaded, last, rt>>

\* send_audio writing the cache entry of a file it is about to upload before
\* it awaits bot.send_audio
send_audio_prepare_caching_first(h) ==
    LET hd == handlers[h]
        cached_file_id == get_file_id(files_id_cache[HandlersModule], hd.audio_file)
        ev == [Call("get", HandlersModule, h, PathName(hd.audio_file), None,
                    cached_file_id, EmptyDict)
                  EXCEPT !.path = hd.audio_file]
    IN  /\ hd.pc = "await_send_chat_action"
        /\ IF Truthy(hd.file_id) \/ hd.audio_file = NoPath THEN
               /\ handlers' = [handlers EXCEPT
                      ![h].pc = IF Truthy(hd.file_id) THEN "await_send_audio" ELSE "done",
                      ![h].out.chat_actions = @ + 1,
                      ![h].audio_to_send =
                          IF Truthy(hd.file_id)
                          THEN Payload("file_id", hd.file_id, NoPath) ELSE NoPayload]
               /\ UNCHANGED <<files_id_cache, files_id_db, loaded, last, rt>>
           ELSE
               /\ handlers' = [handlers EXCEPT
                      ![h].pc = "await_send_audio",
                      ![h].out.chat_actions = @ + 1,
                      ![h].audio_to_send =
                          IF Truthy(cached_file_id)
                          THEN Payload("file_id", cached_file_id, NoPath)
                          ELSE Payload("path", None, hd.audio_file),
                      ![h].title = PathStem(hd.audio_file)]
               /\ IF Truthy(cached_file_id)
                  THEN /\ UNCHANGED <<files_id_cache, files_id_db, loaded>>
                       /\ last' = ev
                       /\ rt' = RoundTrip(rt, ev)
                  ELSE set_file_id(HandlersModule, hd.audio_file, PathStem(hd.audio_file),
                                   "ok", h, RoundTrip(rt, ev))

\* bot.send_chat_action returns; send_audio chooses audio_to_send and title
\* and awaits bot.send_audio.
send_audio_prepare(h) ==
    LET hd == handlers[h]
        cached_file_id == get_file_id(files_id_cache[HandlersModule], hd.audio_file)
        ev == [Call("get", HandlersModule, h, PathName(hd.audio_file), None,
                    cached_file_id, EmptyDict)
                  EXCEPT !.path = hd.audio_file]
    IN  /\ hd.pc = "await_send_chat_action"
        /\ UNCHANGED <<files_id_cache, files_id_db, loaded>>
        /\ IF Truthy(hd.file_id) THEN
               /\ handlers' = [handlers EXCEPT
                      ![h].pc = "await_send_audio",
                      ![h].out.chat_actions = @ + 1,
                      ![h].audio_to_send = Payload("file_id", hd.file_id, NoPath),
                      ![h].title = None]
               /\ UNCHANGED <<last, rt>>
           ELSE IF hd.audio_file # NoPath /\ ~IsPath(hd.audio_file) THEN
               \* get_file_id(audio_file): a str has no attribute 'name'
               /\ handlers' = [handlers EXCEPT
                      ![h].pc = "raised",
                      ![h].error = "AttributeError",
                      ![h].out.chat_actions = @ + 1]
               /\ UNCHANGED <<last, rt>>
           ELSE IF hd.audio_file # NoPath THEN
               /\ handlers' = [handlers EXCEPT
                      ![h].pc = "await_send_audio",
                      ![h].out.chat_actions = @ + 1,
                      ![h].audio_to_send =
                          IF Truthy(cached_file_id)
                          THEN Payload("file_id", cached_file_id, NoPath)
                          ELSE Payload("path", None, hd.audio_file),
                      ![h].title = PathStem(hd.audio_file)]
               /\ last' = ev
               /\ rt' = RoundTrip(rt, ev)
           ELSE
               /\ handlers' = [handlers EXCEPT
                      ![h].pc = "done",
                      ![h].out.chat_actions = @ + 1]
               /\ UNCHANGED <<last, rt>>

\* message.audio.file_id of the message bot.send_audio returns: the
\* identifier sent, or the one Telegram gives the uploaded file.
MessageFileId(audio_to_send, new_file_id) ==
    IF audio_to_send.kind = "file_id" THEN audio_to_send.id ELSE new_file_id

\* bot.send_audio has delivered the audio and its result, the message, is
\* there: the coroutine is ready to go on.
bot_send_audio_done(h, new_file_id) ==
    LET hd == handlers[h]
        sent == [audio |-> hd.audio_to_send, title |-> hd.title]
    IN  /\ hd.pc = "await_send_audio"
        /\ handlers' = [handlers EXCEPT
               ![h].pc = "sent",
               ![h].message = MessageFileId(hd.audio_to_send, new_file_id),
               ![h].out.audios = Append(@, sent)]
        /\ UNCHANGED <<files_id_cache, files_id_db, loaded, last, rt>>

\* send_audio caching the message's file_id without looking at its
\* arguments first
send_audio_finish_unguarded(h, outcome) ==
    LET hd == handlers[h]
        found == get_file_id(files_id_cache[HandlersModule], hd.audio_file)
        ev == [Call("get", HandlersModule, h, PathName(hd.audio_file), None, found, EmptyDict)
                  EXCEPT !.path = hd.audio_file]
    IN  /\ hd.pc = "sent"
        /\ IF ~Truthy(found) THEN
               /\ set_file_id(HandlersModule, hd.audio_file, hd.message,
                              outcome, h, RoundTrip(rt, ev))
               /\ handlers' =
                      [handlers EXCEPT ![h].pc = IF outcome = "ok" THEN "done" ELSE "raised"]
           ELSE
               /\ outcome = "ok"
               /\ handlers' = [handlers EXCEPT ![h].pc = "done"]
               /\ UNCHANGED <<files_id_cache, files_id_db, loaded>>
               /\ last' = ev
               /\ rt' = RoundTrip(rt, ev)

\* send_audio deciding before it awaits bot.send_audio whether it will cache
\* the message's file_id: it caches whenever it uploaded the file
send_audio_finish_decided_early(h, outcome) ==
    LET hd == handlers[h]
        looks_up == hd.audio_file # NoPath /\ ~Truthy(hd.file_id)
        found == get_file_id(files_id_cache[HandlersModule], hd.audio_file)
        ev == [Call("get", HandlersModule, h, PathName(hd.audio_file), None, found, EmptyDict)
                  EXCEPT !.path = hd.audio_file]
    IN  /\ hd.pc = "sent"
        /\ IF looks_up /\ hd.audio_to_send.kind = "path" THEN
               /\ set_file_id(HandlersModule, hd.audio_file, hd.message,
                              outcome, h, RoundTrip(rt, ev))
               /\ handlers' =
                      [handlers EXCEPT
                          ![h].pc = IF outcome = "ok" THEN "done" ELSE "raised",
                          ![h].error = IF outcome = "ok" THEN None ELSE "OSError"]
           ELSE
               /\ outcome = "ok"
               /\ handlers' = [handlers EXCEPT ![h].pc = "done"]
               /\ UNCHANGED <<files_id_cache, files_id_db, loaded>>
               /\ last' = IF looks_up THEN ev ELSE last
               /\ rt' = IF looks_up THEN RoundTrip(rt, ev) ELSE rt

\* send_audio goes on after the await: it caches the message's file_id if it
\* has none for the file, and returns.
send_audio_finish(h, outcome) ==
    LET hd == handlers[h]
        looks_up == hd.audio_file # NoPath /\ ~Truthy(hd.file_id)
        found == get_file_id(files_id_cache[HandlersModule], hd.audio_file)
        ev == [Call("get", HandlersModule, h, PathName(hd.audio_file), None, found, EmptyDict)
                  EXCEPT !.path = hd.audio_file]
    IN  /\ hd.pc = "sent"
        /\ IF looks_up /\ ~Truthy(found) THEN
               /\ set_file_id(HandlersModule, hd.audio_file, hd.message,
                              outcome, h, RoundTrip(rt, ev))
               /\ handlers' =
                      [handlers EXCEPT
                          ![h].pc = IF outcome = "ok" THEN "done" ELSE "raised",
                          ![h].error = IF outcome = "ok" THEN None ELSE "OSError"]
           ELSE
               /\ outcome = "ok"
               /\ handlers' = [handlers EXCEPT ![h].pc = "done"]
               /\ UNCHANGED <<files_id_cache, files_id_db, loaded>>
               /\ last' = IF looks_up THEN ev ELSE last
               /\ rt' = IF looks_up THEN RoundTrip(rt, ev) ELSE rt

\* The bot call a handler awaits raises (a network error): the handler ends
\* there.
bot_call_fails(h) ==
    /\ handlers[h].pc \in {"await_send_message", "await_send_chat_action",
                            "await_send_audio", "await_not_found"}
    /\ handlers' = [handlers EXCEPT ![h].pc = "raised", ![h].error = "NetworkError"]
    /\ UNCHANGED <<files_id_cache, files_id_db, loaded, last, rt>>

----------------------------------------------------------------------------
(* The command handlers, _handlers.py *)

\* The names bound in the module _handlers: its imports and its definitions.
HandlersGlobals ==
    {"logging", "Path", "Optional", "Update", "ChatAction", "ApplicationBuilder",
     "CommandHandler", "ContextTypes", "MessageHandler", "filters",
     "get_civilization_list", "get_file_id", "get_sound_list", "get_taunt_list",
     "set_file_id", "audio_caption", "audio_folder", "logger",
     "start", "help_command", "help_command_french", "unknown_command",
     "send_audio", "_send_random_audio", "send_sound", "send_civ", "send_taunt",
     "taunt", "civilization", "list_civilizations", "list_taunts", "list_sounds",
     "register_taunt_handlers", "register_civilization_handlers", "register_handlers"}

RandomCommands == {"send_sound", "send_civ", "send_taunt"}

\* The name each random-audio command passes as get_file_func
GetterOf(command) ==
    CASE command = "send_sound" -> "get_random_audio"
      [] command = "send_civ" -> "get_random_civilization"
      [] command = "send_taunt" -> "get_random_taunt"

\* The pattern each getter of _files.py hands to _get_random_file
PatternOf(getter) ==
    CASE getter = "get_random_audio" -> audio_pattern
      [] getter = "get_random_civilization" -> civilizations_pattern
      [] getter = "get_random_taunt" -> taunts_pattern

\* A command handler starts on handler h.
Starts(h) == handlers[h].pc \in {"idle", "done", "raised"}

\* The handler's own call of send_audio(update, context, audio_file, file_id),
\* up to send_audio's first await
CallsSendAudio(h, command, text, audio_file, file_id) ==
    handlers' = [handlers EXCEPT ![h] =
        [Idle EXCEPT !.pc = FirstAwait(audio_file, file_id),
                     !.audio_file = audio_file,
                     !.file_id = file_id,
                     !.command = command,
                     !.text = text]]

\* The handler awaits bot.send_message with its 'not found' text.
AwaitsNotFound(h, command, text) ==
    handlers' = [handlers EXCEPT ![h] =
        [Idle EXCEPT !.pc = "await_not_found", !.command = command, !.text = text]]

\* send_sound, send_civ, send_taunt: _send_random_audio(update, context,
\* get_file_func), the name of get_file_func looked up in the module when the
\* handler runs
send_random_audio(h, command) ==
    LET get_file_func == GetterOf(command)
    IN  /\ Starts(h)
        /\ IF get_file_func \notin HandlersGlobals
           THEN handlers' = [handlers EXCEPT ![h] =
                    [Idle EXCEPT !.pc = "raised", !.error = "NameError",
                                 !.command = command]]
           ELSE \E r \in get_random_file(PatternOf(get_file_func)) :
                    CallsSendAudio(h, command, <<>>, r[1], r[2])
        /\ UNCHANGED <<files_id_cache, files_id_db, loaded, last, rt>>

\* taunt_num of the taunt handler
TauntNum(text) == str_zfill(str_strip(text, "/"), 2)

\* taunt(update, context), update.message.text = text
taunt(h, text) ==
    LET taunt_num == TauntNum(text)
        taunt_file == glob(taunt_num \o <<" ", "*", ".", "m", "p", "3">>)
    IN  /\ Starts(h)
        /\ IF taunt_file = {}
           THEN AwaitsNotFound(h, "taunt", text)
           ELSE \E first \in taunt_file : CallsSendAudio(h, "taunt", text, first, None)
        /\ UNCHANGED <<files_id_cache, files_id_db, loaded, last, rt>>

\* civ_file of the civilization handler: the names of get_civilization_list
\* that equal the command's name when both are lowered
CivFile(text) ==
    LET civ_name == str_strip(text, "/")
    IN  {civ \in get_civilization_list : str_lower(Chars(civ)) = str_lower(civ_name)}

\* civilization(update, context), update.message.text = text
civilization(h, text) ==
    /\ Starts(h)
    /\ IF CivFile(text) = {}
       THEN AwaitsNotFound(h, "civilization", text)
       ELSE \E first \in CivFile(text) :
                CallsSendAudio(h, "civilization", text, Str(first), None)
    /\ UNCHANGED <<files_id_cache, files_id_db, loaded, last, rt>>

\* The text of the 'not found' message of a handler
NotFoundText(command, text) ==
    IF command = "taunt"
    THEN "Taunt " \o Join(TauntNum(text)) \o " not found"
    ELSE "Civilization " \o Join(str_strip(text, "/")) \o " not found"

\* bot.send_message returns: the 'not found' text is out, the handler returns.
not_found_sent(h) ==
    /\ handlers[h].pc = "await_not_found"
    /\ handlers' = [handlers EXCEPT
           ![h].pc = "done",
           ![h].out.messages = Append(@, NotFoundText(handlers[h].command, handlers[h].text))]
    /\ UNCHANGED <<files_id_cache, files_id_db, loaded, last, rt>>

\* register_taunt_handlers: the commands it registers the taunt handler for
register_taunt_handlers ==
    LET parts0(t) == first_word(Chars(t))
        taunt_numbers == {str_to_int(parts0(t)) :
                             t \in {x \in get_taunt_list : str_isdigit(parts0(x))}}
    IN  {int_to_str(taunt_num) : taunt_num \in taunt_numbers}

\* register_civilization_handlers: the commands of the civilization handler
register_civilization_handlers ==
    {Chars(civ_name) : civ_name \in get_civilization_list}
        \cup {str_lower(Chars(civ_name)) : civ_name \in get_civilization_list}

\* The text of the message that carries a command
CommandText(command) == <<"/">> \o command

\* Numbers no taunt file has
UnknownTaunts == {<<"7">>, <<"9", "9">>}

\* The texts the taunt handler is invoked with: the registered commands, and
\* numbers that have no file
TauntTexts ==
    {CommandText(c) : c \in register_taunt_handlers}
        \cup {CommandText(c) : c \in UnknownTaunts}

\* A name no civilization file has
UnknownCiv == <<"a", "t", "l", "a", "n", "t", "i", "s">>

\* The texts the civilization handler is invoked with: the registered
\* commands, those in capitals, and one that names no file
CivTexts ==
    {CommandText(c) : c \in register_civilization_handlers}
        \cup {CommandText(str_upper(c)) : c \in register_civilization_handlers}
        \cup {CommandText(UnknownCiv)}

----------------------------------------------------------------------------
(* The process *)

\* main(): a process starts.  Its modules are imported, so every
\* _files_id_cache is {}, and no handler of an earlier process is left.
\* bootstrap() is not among the sources; main() makes no cache call itself,
\* and register_handlers makes none.
main ==
    /\ files_id_cache' = FreshCaches
    /\ loaded' = NotLoaded
    /\ handlers' = [h \in DOMAIN handlers |-> Idle]
    /\ UNCHANGED files_id_db
    /\ last' = NoCall
    /\ rt' = RoundTrip(rt, NoCall)

Init ==
    /\ files_id_cache = FreshCaches
    /\ files_id_db \in InitialStores
    /\ loaded = NotLoaded
    /\ handlers = [h \in Handlers |-> Idle]
    /\ last = NoCall
    /\ rt = NoRoundTrip

\* Direct calls of the cache functions of one module (tests, listing and
\* reset commands).
api_load_cache == load_cache(CacheModule, "api") /\ UNCHANGED handlers

api_get_file_id ==
    \E p \in Paths : call_get_file_id(CacheModule, p, "api") /\ UNCHANGED handlers

api_set_file_id ==
    \E p \in Paths, id \in Ids, outcome \in PutOutcomes :
        set_file_id(CacheModule, p, id, outcome, "api", rt) /\ UNCHANGED handlers

api_clear_file_id_db ==
    \E outcome \in ClearOutcomes :
        clear_file_id_db(CacheModule, outcome, "api") /\ UNCHANGED handlers

api_get_all_file_ids == get_all_file_ids(CacheModule, "api") /\ UNCHANGED handlers

api_change_returned == change_returned(CacheModule) /\ UNCHANGED handlers

\* A load_cache call made when the bot starts, of either module.
startup_load_cache == \E mod \in Modules : load_cache(mod, "api") /\ UNCHANGED handlers

handler_call ==
    \E h \in DOMAIN handlers, f \in AudioFileArgs, id \in FileIdArgs :
        send_audio_call(h, f, id)

handler_no_file == \E h \in DOMAIN handlers : send_audio_no_file(h)

handler_prepare == \E h \in DOMAIN handlers : send_audio_prepare(h)

handler_sent == \E h \in DOMAIN handlers, id \in Ids : bot_send_audio_done(h, id)

handler_finish == \E h \in DOMAIN handlers, outcome \in PutOutcomes : send_audio_finish(h, outcome)

handler_fails == \E h \in DOMAIN handlers : bot_call_fails(h)

\* tests/test_handlers.py: set_file_id(audio_file, cached_id), the function
\* of _files_id_db
test_set_file_id ==
    \E p \in audio_folder, id \in Ids :
        set_file_id(TestsModule, p, id, "ok", "api", rt) /\ UNCHANGED handlers

\* The cache as a component: a process and the direct calls of the functions
\* of one module.
NextCache ==
    \/ main
    \/ api_load_cache
    \/ api_get_file_id
    \/ api_set_file_id
    \/ api_clear_file_id_db
    \/ api_get_all_file_ids

SpecCache == Init /\ [][NextCache]_vars

\* A listing command: it calls get_all_file_ids and works on what it was
\* handed, among the other direct calls.
NextListing ==
    \/ main
    \/ api_load_cache
    \/ api_get_file_id
    \/ api_set_file_id
    \/ api_get_all_file_ids
    \/ api_change_returned

SpecListing == Init /\ [][NextListing]_vars

\* The bot: a process, its send_audio handlers, a startup load and the call
\* the tests make before they call send_audio.
NextBot ==
    \/ main
    \/ startup_load_cache
    \/ test_set_file_id
    \/ handler_call
    \/ handler_no_file
    \/ handler_prepare
    \/ handler_sent
    \/ handler_finish
    \/ handler_fails

SpecBot == Init /\ [][NextBot]_vars

taunt_command == \E h \in Handlers, text \in TauntTexts : taunt(h, text)

civilization_command == \E h \in Handlers, text \in CivTexts : civilization(h, text)

random_command == \E h \in Handlers, command \in RandomCommands : send_random_audio(h, command)

command_not_found == \E h \in Handlers : not_found_sent(h)

\* The bot's commands: a process and the handlers of the taunt, civilization
\* and random-audio commands, each calling send_audio.
NextCommands ==
    \/ main
    \/ taunt_command
    \/ civilization_command
    \/ random_command
    \/ command_not_found
    \/ handler_prepare
    \/ handler_sent
    \/ handler_finish
    \/ handler_fails

SpecCommands == Init /\ [][NextCommands]_vars

\* A command handler calls send_audio(update, context, file) with a file of
\* the audio folder and no file_id.
command_call ==
    \E h \in DOMAIN handlers, f \in audio_folder : send_audio_call(h, f, None)

InitConcurrent ==
    /\ files_id_cache = FreshCaches
    /\ files_id_db \in InitialStores
    /\ loaded = NotLoaded
    /\ handlers = [h \in ConcurrentHandlers |-> Idle]
    /\ last = NoCall
    /\ rt = NoRoundTrip

\* Updates handled concurrently: the send_audio coroutines of several
\* commands interleave at their awaits; between two awaits a coroutine runs
\* alone.
NextConcurrent ==
    \/ main
    \/ startup_load_cache
    \/ command_call
    \/ handler_prepare
    \/ handler_sent
    \/ handler_finish
    \/ handler_fails

SpecConcurrent == InitConcurrent /\ [][NextConcurrent]_vars

----------------------------------------------------------------------------
(* Claims *)

\* C1: whenever a put or a clear has just returned successfully, the
\* in-memory mapping of the module that was called and the persisted store
\* hold the same (name, identifier) pairs, a missing store file holding none.
C1_MemoryAgreesWithStore ==
    (last.op \in {"put", "clear"} /\ last.result = "ok")
        => PairSet(files_id_cache[last.mod]) = StorePairs(files_id_db)

\* C1 witness: a put issued before any load in its process has returned, and
\* the mapping holds two entries.
C1_PutBeforeLoad ==
    /\ last.op = "put" /\ last.result = "ok"
    /\ ~loaded[last.mod]
    /\ Cardinality(DOMAIN files_id_cache[last.mod]) = 2

\* C2: every lookup the send-audio flow makes happens after load() has
\* completed in the running process.
C2_LoadedBeforeLookup ==
    (last.op = "get" /\ last.caller \in Handlers) => loaded[HandlersModule]

\* C3: a put that is interrupted leaves in the persisted store either what
\* the store held before the put or the complete new mapping.
C3_AllOrNothing ==
    [][(last'.op = "put" /\ last'.result # "ok")
          => \/ files_id_db' = files_id_db
             \/ files_id_db' =
                    json_dump(dict_set(files_id_cache[last'.mod], last'.name, last'.id))]_vars

\* C4: put(name, identifier), then a fresh process start, then load(), then
\* get(name) returns identifier.
C4_RoundTrip == rt.stage = "got" => rt.result = rt.id

\* C4 witness: the four calls have been made in that order and the get
\* returned an identifier.
C4_RoundTripDone == rt.stage = "got" /\ rt.result \in Ids /\ last.op = "get"

\* C5: load() on a store that exists and cannot be parsed as a mapping, the
\* in-memory mapping being empty, returns without raising and leaves the
\* mapping empty.
C5_CorruptStoreTolerated ==
    [][(/\ last'.op = "load"
        /\ files_id_db.kind \notin {"absent", "object"}
        /\ files_id_cache[last'.mod] = EmptyDict)
          => /\ last'.result = "ok"
             /\ files_id_cache'[last'.mod] = EmptyDict]_vars

\* C6: when set_file_id of the module the tests import has stored an
\* identifier for a file, send_audio(file, no file_id) chooses that
\* identifier as the audio to send, and it sends exactly one audio.
C6_CacheHitReusesStoredId ==
    [][\A h \in Handlers :
          LET hd == handlers[h]
              stored == get_file_id(files_id_cache[TestsModule], hd.audio_file)
          IN  /\ (/\ hd.pc = "await_send_chat_action"
                  /\ handlers'[h].pc = "await_send_audio"
                  /\ hd.audio_file # NoPath /\ hd.file_id = None
                  /\ Truthy(stored))
                    => handlers'[h].audio_to_send = Payload("file_id", stored, NoPath)
              /\ (/\ hd.pc = "sent"
                  /\ handlers'[h].pc = "done"
                  /\ hd.audio_file # NoPath /\ hd.file_id = None)
                    => Len(handlers'[h].out.audios) = 1]_vars

\* C7: when no identifier is stored for a file, send_audio(file, no file_id)
\* sends the file itself with the file stem as title, and when it returns
\* get_file_id of the module the tests import gives the file_id of the
\* message that was sent.
C7_CacheMissStoresMessageId ==
    [][\A h \in Handlers :
          LET hd == handlers[h]
          IN  (/\ hd.pc = "sent"
               /\ handlers'[h].pc = "done"
               /\ hd.audio_file # NoPath /\ hd.file_id = None
               /\ hd.audio_to_send.kind = "path"
               /\ ~Truthy(get_file_id(files_id_cache[TestsModule], hd.audio_file)))
                 => /\ hd.out.audios =
                           <<[audio |-> Payload("path", None, hd.audio_file),
                              title |-> PathStem(hd.audio_file)]>>
                    /\ get_file_id(files_id_cache'[TestsModule], hd.audio_file) = hd.message]_vars

\* C8: whenever send_audio calls set_file_id, whatever the outcome of the
\* call, the bot's send_audio call has completed and the audio is out.
C8_SentBeforeCached ==
    [][\A h \in Handlers :
          (/\ last'.op = "put" /\ last'.caller = h
           /\ (files_id_cache' # files_id_cache \/ files_id_db' # files_id_db \/ last' # last))
             => /\ handlers[h].pc = "sent"
                /\ Len(handlers[h].out.audios) = 1]_vars

\* C8 witness: a put made by send_audio failed on a storage error, and the
\* audio of that call is out.
C8_PutFailedAfterSend ==
    /\ last.op = "put" /\ last.caller \in Handlers
    /\ last.result = "write_error"
    /\ handlers[last.caller].pc = "raised"
    /\ Len(handlers[last.caller].out.audios) = 1

\* C9: after a clear() that returns, get(name) is absent for every name and
\* the store file does not exist; a clear() with no store file returns
\* without an error and leaves the cache empty.
C9_ClearSemantics ==
    [][(last'.op = "clear")
          => /\ (last'.result = "ok" =>
                    /\ \A p \in Paths : get_file_id(files_id_cache'[last'.mod], p) = None
                    /\ files_id_db' = Absent)
             /\ (files_id_db = Absent =>
                    /\ last'.result = "ok"
                    /\ files_id_cache'[last'.mod] = EmptyDict)]_vars

\* C9 witness: a clear() has returned that found entries in memory and a
\* store file.
C9_ClearedAfterPuts ==
    /\ last.op = "clear" /\ last.result = "ok"
    /\ last.pre = {"cached", "stored"}
    /\ files_id_db = Absent

\* C10: load() leaves a non-empty in-memory mapping as it is whatever the
\* store holds, leaves the mapping as it is (empty) when there is no store
\* file, and never changes the store.
C10_LoadFrame ==
    [][(last'.op = "load")
          => /\ files_id_db' = files_id_db
             /\ (files_id_cache[last'.mod] # EmptyDict => files_id_cache' = files_id_cache)
             /\ (files_id_db = Absent => files_id_cache' = files_id_cache)]_vars

\* C10 witness: a load() has returned with entries in memory that are not
\* those of the store, which is a complete document with other entries.
C10_LoadWasNoOp ==
    /\ last.op = "load" /\ last.result = "ok"
    /\ files_id_cache[last.mod] # EmptyDict
    /\ files_id_db.kind = "object"
    /\ StorePairs(files_id_db) # {}
    /\ PairSet(files_id_cache[last.mod]) # StorePairs(files_id_db)

\* C11: once load() has returned, a put() that fails with a storage error in
\* a state where the in-memory mapping equals the complete document the store
\* holds (the last contents successfully written) leaves the in-memory
\* mapping equal to those contents.
C11_MemoryAtLastWriteAfterFailedPut ==
    [][(/\ last'.op = "put" /\ last'.result # "ok"
        /\ loaded[last'.mod]
        /\ files_id_db.kind = "object"
        /\ PairSet(files_id_cache[last'.mod]) = StorePairs(files_id_db))
          => PairSet(files_id_cache'[last'.mod]) = StorePairs(files_id_db)]_vars

\* The members of the document in the store that have the key `name`.
StoreEntriesOf(doc, name) == {i \in 1..Len(doc.entries) : doc.entries[i][1] = name}

\* C12: put(name, id1) followed by put(name, id2), both returning, leaves
\* get(name) = id2 and a store with exactly one entry for name, of value
\* id2; and a put that returns leaves every other entry of the in-memory
\* mapping as it was, the store holding those same entries.
C12_IdempotentOverwrite ==
    [][(last'.op = "put" /\ last'.result = "ok")
          => LET mod == last'.mod
                 name == last'.name
                 others(d) == {e \in PairSet(d) : e[1] # name}
             IN  /\ others(files_id_cache'[mod]) = others(files_id_cache[mod])
                 /\ {e \in StorePairs(files_id_db') : e[1] # name}
                        = others(files_id_cache[mod])
                 /\ (/\ last.op = "put" /\ last.result = "ok"
                     /\ last.mod = mod /\ last.name = name)
                       => /\ get_file_id(files_id_cache'[mod], last'.path) = last'.id
                          /\ files_id_db'.kind = "object"
                          /\ Cardinality(StoreEntriesOf(files_id_db', name)) = 1
                          /\ \A i \in StoreEntriesOf(files_id_db', name) :
                                 files_id_db'.entries[i][2] = last'.id]_vars

\* C12 witness: a put has returned that came directly after a put of another
\* identifier for the same name, the mapping holding a second entry.
C12_OverwroteAfterPut ==
    /\ last.op = "put" /\ last.result = "ok"
    /\ "new_id" \in last.pre
    /\ files_id_cache[last.mod][last.name] = last.id
    /\ Cardinality(DOMAIN files_id_cache[last.mod]) = 2

\* C13: get(name) changes neither the in-memory mapping nor the store and
\* triggers no load; it returns the identifier the in-memory mapping holds
\* for the name, which directly after a put for that name is the put's
\* identifier, and the absent value when the mapping has no entry.
C13_GetIsPure ==
    [][(last'.op = "get")
          => LET mod == last'.mod
                 name == last'.name
             IN  /\ files_id_cache' = files_id_cache
                 /\ files_id_db' = files_id_db
                 /\ loaded' = loaded
                 /\ last'.result \in Ids \cup {None}
                 /\ (name \in DOMAIN files_id_cache[mod]
                        => last'.result = files_id_cache[mod][name])
                 /\ (name \notin DOMAIN files_id_cache[mod] => last'.result = None)
                 /\ (last.op = "put" /\ last.mod = mod /\ last.name = name
                        => last'.result = last.id)]_vars

\* C13 witness: a get has returned the absent value in a process that made no
\* load, the store holding an entry for the name.
C13_MissWithoutLoad ==
    /\ last.op = "get" /\ last.result = None
    /\ ~loaded[last.mod]
    /\ \E e \in StorePairs(files_id_db) : e[1] = last.name

\* C14: getAll() returns a value equal to the in-memory mapping at the time
\* of the call and leaves mapping and store alone; a change the caller makes
\* to the returned value changes neither the mapping, so no later get or
\* getAll, nor the store.
C14_GetAllReturnsCopy ==
    [][(last'.op = "getAll")
          => LET mod == last'.mod
             IN  /\ files_id_cache' = files_id_cache
                 /\ files_id_db' = files_id_db
                 /\ \A p \in Paths : get_file_id(files_id_cache'[mod], p)
                                        = get_file_id(files_id_cache[mod], p)
                 /\ ("changed" \notin last'.pre => last'.copy = files_id_cache[mod])]_vars

\* C14 witness: the caller has changed the value a getAll() returned, and
\* the in-memory mapping, which holds an entry, is still what was returned.
C14_ReturnedValueChanged ==
    /\ last.op = "getAll" /\ "changed" \in last.pre
    /\ last.copy = files_id_cache[last.mod]
    /\ files_id_cache[last.mod] # EmptyDict

\* C15: directly after put(q, id), for a path p of another directory that has
\* q's base name, get(p) returns id, and put(p, id2) replaces the entry the
\* first put wrote: get(q) gives id2 and the mapping has no entry more.
C15_KeyedByBaseName ==
    [][(/\ last.op = "put"
        /\ last'.op \in {"get", "put"}
        /\ last'.mod = last.mod
        /\ last'.path.stem = last.path.stem
        /\ last'.path.suffix = last.path.suffix
        /\ last'.path.dir # last.path.dir)
          => LET mod == last.mod
             IN  /\ last'.op = "get" => last'.result = last.id
                 /\ last'.op = "put" =>
                        /\ get_file_id(files_id_cache'[mod], last.path) = last'.id
                        /\ DOMAIN files_id_cache'[mod] = DOMAIN files_id_cache[mod]]_vars

\* C15 witness: a get for a path has returned the identifier that the put
\* made directly before it stored for a path of another directory.
C15_HitAcrossDirectories ==
    /\ last.op = "get" /\ "other_dir" \in last.pre
    /\ last.result \in Ids
    /\ last.path.dir = "other"

\* A step of the send_audio call that handler h has in progress.
StepOf(h) ==
    /\ handlers[h].pc \notin {"idle", "done", "raised"}
    /\ handlers'[h] # handlers[h]
    /\ handlers'[h].pc # "idle"

\* C16: send_audio called with neither a file nor a file_id sends one text
\* message, "Sorry, no audio files available.", no audio and no chat action,
\* and no step of it changes the cache or the store.
C16_NoFileNoId ==
    [][\A h \in Handlers :
          LET hd == handlers[h]
              hn == handlers'[h]
          IN  (StepOf(h) /\ hd.audio_file = NoPath /\ hd.file_id = None)
                 => /\ files_id_cache' = files_id_cache
                    /\ files_id_db' = files_id_db
                    /\ hn.pc \in {"done", "raised"}
                    /\ hn.out.audios = <<>>
                    /\ hn.out.chat_actions = 0
                    /\ hn.out.messages = IF hn.pc = "done" THEN <<NoAudioText>> ELSE <<>>]_vars

\* C16 witness: such a call has returned with its one text message out, in a
\* process whose cache holds an entry.
C16_NoAudioTextSent ==
    \E h \in Handlers :
        /\ handlers[h].pc = "done"
        /\ handlers[h].audio_file = NoPath /\ handlers[h].file_id = None
        /\ handlers[h].out.messages = <<NoAudioText>>
        /\ files_id_cache[HandlersModule] # EmptyDict

\* C17: send_audio called with a file_id and no file sends exactly one
\* audio, whose payload is that file_id and whose title is None, and no step
\* of it calls a cache function or changes the cache or the store.
C17_FileIdOnly ==
    [][\A h \in Handlers :
          LET hd == handlers[h]
              hn == handlers'[h]
          IN  (StepOf(h) /\ hd.audio_file = NoPath /\ Truthy(hd.file_id))
                 => /\ files_id_cache' = files_id_cache
                    /\ files_id_db' = files_id_db
                    /\ last' = last
                    /\ hn.out.messages = <<>>
                    /\ Len(hn.out.audios) <= 1
                    /\ hn.pc = "done" =>
                           hn.out.audios =
                               <<[audio |-> Payload("file_id", hd.file_id, NoPath),
                                  title |-> None]>>]_vars

\* C17 witness: such a call has returned with its one audio out, in a process
\* whose cache holds an entry.
C17_FileIdAudioSent ==
    \E h \in Handlers :
        /\ handlers[h].pc = "done"
        /\ handlers[h].audio_file = NoPath /\ handlers[h].file_id \in Ids
        /\ Len(handlers[h].out.audios) = 1
        /\ files_id_cache[HandlersModule] # EmptyDict

\* A handler has ended and no bot call of it failed.
Ended(hd) == hd.pc \in {"done", "raised"} /\ hd.error # "NetworkError"

\* C18: the civilization handler, for a command text whose name equals,
\* ignoring case, the name of a civilization file, sends exactly one audio
\* and no text; for a name that matches no civilization it sends exactly
\* one 'not found' text and no audio.
C18_CivilizationCaseInsensitive ==
    \A h \in Handlers :
        LET hd == handlers[h]
            civ_name == str_strip(hd.text, "/")
            matches == \E p \in get_civilization_files :
                           str_lower(Chars(PathStem(p))) = str_lower(civ_name)
        IN  (hd.command = "civilization" /\ Ended(hd))
               => IF matches
                  THEN Len(hd.out.audios) = 1 /\ hd.out.messages = <<>>
                  ELSE /\ hd.out.audios = <<>>
                       /\ hd.out.messages =
                              <<"Civilization " \o Join(civ_name) \o " not found">>

\* C19: send_sound, send_civ and send_taunt, when a file matches the
\* pattern of their category, send exactly one audio, for one of the files
\* that match.
C19_RandomAudioSent ==
    \A h \in Handlers :
        LET hd == handlers[h]
            files == glob(PatternOf(GetterOf(hd.command)))
        IN  (hd.command \in RandomCommands /\ Ended(hd) /\ files # {})
               => /\ Len(hd.out.audios) = 1
                  /\ hd.audio_file \in files

\* The files whose name starts with the two characters NN and a blank
StartsWith(NN) ==
    {p \in AudioFiles : SubSeq(NameChars(p), 1, 3) = NN \o <<" ">>}

\* C20: for every taunt file 'NN title.mp3' the command str(int(NN)) is
\* registered and the handler's zero-padding of it gives NN back; the taunt
\* handler invoked with a registered command sends no text and exactly one
\* audio, for a file whose name starts with 'NN ', and invoked with a number
\* that has no file it sends exactly one 'not found' text and no audio.
C20_TauntNumbers ==
    /\ \A p \in glob(taunts_pattern) :
           LET NN == SubSeq(NameChars(p), 1, 2)
               command == int_to_str(str_to_int(NN))
           IN  /\ command \in register_taunt_handlers
               /\ TauntNum(CommandText(command)) = NN
    /\ \A h \in Handlers :
           LET hd == handlers[h]
               files == StartsWith(TauntNum(hd.text))
           IN  (hd.command = "taunt" /\ Ended(hd))
                  => /\ str_strip(hd.text, "/") \in register_taunt_handlers => files # {}
                     /\ IF files # {}
                        THEN /\ hd.out.messages = <<>>
                             /\ Len(hd.out.audios) = 1
                             /\ hd.audio_file \in files
                             /\ hd.out.audios[1].title = PathStem(hd.audio_file)
                             /\ hd.out.audios[1].audio.kind = "path"
                                    => hd.out.audios[1].audio.path = hd.audio_file
                        ELSE /\ hd.out.audios = <<>>
                             /\ hd.out.messages =
                                    <<"Taunt " \o Join(TauntNum(hd.text)) \o " not found">>

\* C20 witness: the taunt handler has returned from a registered one-digit
\* command with its one audio out.
C20_PaddedTauntSent ==
    \E h \in Handlers :
        /\ handlers[h].command = "taunt" /\ handlers[h].pc = "done"
        /\ Len(str_strip(handlers[h].text, "/")) = 1
        /\ str_strip(handlers[h].text, "/") \in register_taunt_handlers
        /\ Len(handlers[h].out.audios) = 1

\* C21: within one process, once a load() has returned, a further load()
\* leaves the in-memory mapping of its module as it is, whatever get, put,
\* clear and getAll calls, returning or raising, were made in between.
C21_LoadOnce ==
    [][(last'.op = "load" /\ loaded[last'.mod])
          => files_id_cache'[last'.mod] = files_id_cache[last'.mod]]_vars

\* C22: a put that send_audio makes and that returns keeps, in the persisted
\* store, every (name, identifier) pair the store held before it under
\* another name.  No behaviour of the bot contains a clear().
C22_PutKeepsOtherEntries ==
    [][(/\ last'.op = "put" /\ last'.caller \in DOMAIN handlers
        /\ last'.result = "ok"
        /\ handlers[last'.caller].pc = "sent"
        /\ handlers'[last'.caller].pc = "done")
          => \A pair \in StorePairs(files_id_db) :
                 pair[1] # last'.name => pair \in StorePairs(files_id_db')]_vars

\* C23: however the send_audio coroutines interleave at their awaits, no step
\* of send_audio changes or removes an entry the cache of its module holds:
\* the identifier kept for a file is the one of the upload that completed
\* first, until the process ends.  No behaviour of the bot contains a
\* clear().
C23_NoOverwrite ==
    [][(\E h \in DOMAIN handlers : handlers'[h] # handlers[h] /\ handlers'[h].pc # "idle")
          => \A n \in DOMAIN files_id_cache[HandlersModule] :
                 /\ n \in DOMAIN files_id_cache'[HandlersModule]
                 /\ files_id_cache'[HandlersModule][n] = files_id_cache[HandlersModule][n]]_vars

\* C23 witness: two send_audio calls have uploaded the same file, each got
\* another file_id from its upload, and both have returned; the second to
\* go on after its upload found the entry of the first and left it.
C23_SecondUploadLeftEntry ==
    \E h1 \in DOMAIN handlers, h2 \in DOMAIN handlers :
        /\ h1 # h2
        /\ handlers[h1].pc = "done" /\ handlers[h2].pc = "done"
        /\ handlers[h1].audio_file = handlers[h2].audio_file
        /\ handlers[h1].audio_to_send.kind = "path"
        /\ handlers[h2].audio_to_send.kind = "path"
        /\ handlers[h1].message # handlers[h2].message
        /\ last.op = "get" /\ last.caller = h2
        /\ last.result = handlers[h1].message
        /\ get_file_id(files_id_cache[HandlersModule], handlers[h2].audio_file)
               = handlers[h1].message

============================================================================
